---- MODULE Spec2Model ----
(***************************************************************************)
(* Model of fastapi-backend/app.py: the module-level start-up (session     *)
(* options, model load, route registration) and the POST /predict handler. *)
(*                                                                         *)
(* The inference engine and the model artifact are external to the         *)
(* repository.  The artifact is an unknown fixed at load time: its input   *)
(* width and whether the engine raises on a zero-row batch are chosen when *)
(* the session is created and never change afterwards.                     *)
(*                                                                         *)
(* Several requests may be in flight (one per slot): the handler itself    *)
(* has no await, so on one event loop it runs to completion, but the       *)
(* server may run several workers; the model splits the handler at the     *)
(* call into the session, which over-approximates both.                    *)
(*                                                                         *)
(* Two specifications share the actions.  SpecSequential serves one        *)
(* request at a time and draws it from every modelled payload (each field  *)
(* as the odd one out, each key order).  Spec interleaves the requests of  *)
(* all slots and draws them from a smaller set of payloads.                *)
(***************************************************************************)
EXTENDS Integers, Sequences, FiniteSets, TLC

\* Longest field sequence of a request.
MaxLen == 3

\* Number of requests that can be in flight at once.
NumSlots == 2

Slots == 1..NumSlots

\* ModelInput: the six fields, in declaration order.
Fields ==
  <<"accelerationY", "accelerationZ", "speedv", "unixTimestamp", "latitude", "longitude">>

\* required_columns of predict.
required_columns ==
  <<"accelerationY", "accelerationZ", "speedv", "unixTimestamp", "latitude", "longitude">>

FieldNames == {Fields[k] : k \in 1..Len(Fields)}

\* Sample readings: element i of each field.  The values are integer-valued;
\* the timestamps are large enough that the 32-bit cast rounds them.
Sample(f, i) ==
  CASE f = "accelerationY" -> 10 + i
    [] f = "accelerationZ" -> 20 + i
    [] f = "speedv"        -> 30 + i
    [] f = "unixTimestamp" -> 1700000000 + 100 * i
    [] f = "latitude"      -> 40 + i
    [] f = "longitude"     -> 0 - (50 + i)

SampleSeq(f, n) == [i \in 1..n |-> Sample(f, i)]

\* Requests whose six sequences all have length n.
AlignedInput(n) == [f \in FieldNames |-> SampleSeq(f, n)]

\* Requests where one field has length m and the other five have length n.
OddInput(n, odd, m) == [f \in FieldNames |-> SampleSeq(f, IF f = odd THEN m ELSE n)]

\* The lengths <<n, m>> of the five agreeing fields and of the odd one.
OddShapes ==
  {sh \in (0..MaxLen) \X (0..MaxLen) : sh[2] = sh[1] - 1 \/ sh[2] = sh[1] + 1}

Inputs ==
  {AlignedInput(n) : n \in 0..MaxLen}
    \cup {OddInput(sh[1], odd, sh[2]) : sh \in OddShapes, odd \in FieldNames}

\* The payloads of the interleaved specification: the aligned ones, and the
\* ones where accelerationY or latitude is one element short.
ConcurrentInputs ==
  {AlignedInput(n) : n \in 0..MaxLen}
    \cup {OddInput(MaxLen, odd, MaxLen - 1) : odd \in {"accelerationY", "latitude"}}

\* The declaration order of the keys.
DeclaredOrder == <<1, 2, 3, 4, 5, 6>>

\* Orders in which a client may list the six keys of the JSON object.
KeyOrders == {<<1, 2, 3, 4, 5, 6>>, <<6, 5, 4, 3, 2, 1>>, <<2, 1, 4, 3, 6, 5>>}

\* The wire payload: the JSON object as the list of its key/value pairs.
EncodeBody(input, order) ==
  [k \in 1..Len(order) |-> <<Fields[order[k]], input[Fields[order[k]]]>>]

\* The value a payload carries under a key.
ValueOf(body, key) ==
  LET k == CHOOSE j \in 1..Len(body) : body[j][1] = key IN body[k][2]

\* A mutation of ModelInput: fields filled by position in the payload.
ParseByPosition(body) ==
  [f \in FieldNames |->
      LET k == CHOOSE j \in 1..Len(Fields) : Fields[j] = f IN body[k][2]]

\* ModelInput(BaseModel): pydantic fills each declared field from the key of
\* the same name.
ModelInput(body) == [f \in FieldNames |-> ValueOf(body, f)]

RECURSIVE FloorLog2(_)
FloorLog2(x) == IF x < 2 THEN 0 ELSE 1 + FloorLog2(x \div 2)

\* IEEE round-to-nearest-even of a non-negative integer to a significand of
\* `bits` bits.
RoundMagnitude(x, bits) ==
  LET e == FloorLog2(x) IN
  IF x = 0 \/ e < bits THEN x
  ELSE LET q    == 2 ^ (e - bits + 1)
           r    == x % q
           down == x - r
       IN  IF 2 * r < q THEN down
           ELSE IF 2 * r > q THEN down + q
           ELSE IF (down \div q) % 2 = 0 THEN down ELSE down + q

RoundTo(x, bits) == IF x < 0 THEN 0 - RoundMagnitude(0 - x, bits) ELSE RoundMagnitude(x, bits)

\* The common dtype of the float64 and int64 columns (.values): float64.
ToFloat64(x) == RoundTo(x, 53)

\* .astype(np.float32)
ToFloat32(x) == RoundTo(x, 24)

Raise(msg) == [ok |-> FALSE, err |-> msg, value |-> <<>>]
Return(v)  == [ok |-> TRUE, err |-> "", value |-> v]

\* A mutation of DataFrame: columns cut to the shortest one instead of raising.
RECURSIVE MinLen(_, _)
MinLen(input, k) ==
  IF k = Len(Fields) THEN Len(input[Fields[k]])
  ELSE LET rest == MinLen(input, k + 1)
           here == Len(input[Fields[k]])
       IN  IF here < rest THEN here ELSE rest

DataFrameTruncating(input) ==
  Return([f \in FieldNames |-> SubSeq(input[f], 1, MinLen(input, 1))])

\* pd.DataFrame({...}) of six lists: a frame with one column per key, or
\* ValueError when the lists differ in length.
DataFrame(input) ==
  IF \A f, g \in FieldNames : Len(input[f]) = Len(input[g])
    THEN Return([f \in FieldNames |-> input[f]])
    ELSE Raise("All arrays must be of the same length")

NumRows(frame) == Len(frame[Fields[1]])

\* An ndarray: its shape and its rows.
NdArray(nrows, ncols, data) == [shape |-> <<nrows, ncols>>, data |-> data]

NoArray == NdArray(0, 0, <<>>)

\* input_data[required_columns].values.astype(np.float32): row i holds element
\* i of each selected column, in the order of `columns`.
SelectValues(frame, columns) ==
  NdArray(NumRows(frame), Len(columns),
          [i \in 1..NumRows(frame) |->
             [c \in 1..Len(columns) |-> ToFloat32(ToFloat64(frame[columns[c]][i]))]])

\* The artifacts the file xgb_model.onnx may turn out to be: the input width
\* it was exported with, and whether the engine raises on a batch of no rows.
Artifacts == [inputWidth : {Len(Fields), Len(Fields) - 1}, rejectsEmpty : BOOLEAN]

NoArtifact == [inputWidth |-> 0, rejectsEmpty |-> FALSE]

\* The artifact as a function of one matrix row: one output column.
RowScore(row) ==
  <<ToFloat32(2 * row[1] + 3 * row[2] + 5 * row[3] + row[4] + 7 * row[5] + 11 * row[6])>>

\* rt.SessionOptions(): the engine's defaults.
DefaultOptions ==
  [inter_op_num_threads |-> 0, intra_op_num_threads |-> 0, execution_mode |-> "ORT_SEQUENTIAL"]

\* The value the thread counts are set to.
NumThreads == 1

\* A mutation of the configuration: the intra-op line is missing.
ConfiguredWithoutIntraOp(options) ==
  [options EXCEPT !.inter_op_num_threads = NumThreads,
                  !.execution_mode = "ORT_SEQUENTIAL"]

\* The three assignments to session_options.
Configured(options) ==
  [options EXCEPT !.inter_op_num_threads = NumThreads,
                  !.intra_op_num_threads = NumThreads,
                  !.execution_mode = "ORT_SEQUENTIAL"]

\* The name `sess` before the load.
NoSession == [loaded |-> FALSE, artifact |-> NoArtifact, options |-> DefaultOptions]

\* rt.InferenceSession(path, session_options): the session keeps the artifact
\* and the options it was created with.
InferenceSession(artifact, options) ==
  [loaded |-> TRUE, artifact |-> artifact, options |-> options]

\* sess.run(None, {input_name: input_data}): the list of the model's outputs,
\* or the engine's error.
SessRun(session, matrix) ==
  IF ~session.loaded THEN Raise("name 'sess' is not defined")
  ELSE IF matrix.shape[2] # session.artifact.inputWidth
    THEN Raise("INVALID_ARGUMENT : Got invalid dimensions for input")
  ELSE IF matrix.shape[1] = 0 /\ session.artifact.rejectsEmpty
    THEN Raise("INVALID_ARGUMENT : empty batch")
  ELSE Return(<<NdArray(matrix.shape[1], 1,
                        [i \in 1..matrix.shape[1] |-> RowScore(matrix.data[i])])>>)

\* A mutation of the engine call: a failed run leaves the session unusable.
SessAfterRunPoisoned(session, result) ==
  IF result.ok THEN session ELSE [session EXCEPT !.artifact.inputWidth = 0]

\* The session after sess.run: running does not write to it.
SessAfterRun(session, result) == session

\* A mutation of tolist: the rows come out last first.
ToListReversed(array) ==
  [i \in 1..Len(array.data) |-> array.data[Len(array.data) + 1 - i]]

\* predictions.tolist(): the rows as nested lists, in order.
ToList(array) == array.data

\* The status of the HTTPException.
ErrorStatus == 500

\* The status of a returned dict.
OkStatus == 200

NoResponse == [status |-> 0, detail |-> "", predictions |-> <<>>]

\* return {"predictions": ...}
Success(predictions) == [status |-> OkStatus, detail |-> "", predictions |-> predictions]

\* A mutation of the except clause: the failure is swallowed.
SwallowException(msg) == [status |-> OkStatus, detail |-> "", predictions |-> <<>>]

\* except Exception as e: raise HTTPException(status_code=500, detail=...)
HTTPException(msg) ==
  [status |-> ErrorStatus, detail |-> "Prediction error: " \o msg, predictions |-> <<>>]

\* A mutation of the load's except clause: the error is printed and dropped.
AfterLoadErrorSwallowed == "routes"

\* except Exception as e: print(...); raise -- the module's execution ends.
AfterLoadError == "aborted"

VARIABLES
  mainpc,           \* position of the module-level code
  session_options,  \* the module-level SessionOptions object
  sess,             \* the module-level InferenceSession
  routes,           \* paths registered on app
  slots,            \* the /predict calls in flight
  loads,            \* how many sessions have been created
  loadError,        \* whether InferenceSession raised
  loadedArtifact    \* the artifact the session was created from

vars == <<mainpc, session_options, sess, routes, slots, loads, loadError, loadedArtifact>>

IdleSlot ==
  [pc |-> "idle", body |-> <<>>, input |-> AlignedInput(0), matrix |-> NoArray,
   calls |-> 0, err |-> "", resp |-> NoResponse]

\* The state after `session_options = rt.SessionOptions()`.
Init ==
  /\ mainpc = "options"
  /\ session_options = DefaultOptions
  /\ sess = NoSession
  /\ routes = {}
  /\ slots = [s \in Slots |-> IdleSlot]
  /\ loads = 0
  /\ loadError = FALSE
  /\ loadedArtifact = NoArtifact

\* session_options.inter_op_num_threads = 1, ... = 1, ... = ORT_SEQUENTIAL
ConfigureOptions ==
  /\ mainpc = "options"
  /\ session_options' = Configured(session_options)
  /\ mainpc' = "load"
  /\ UNCHANGED <<sess, routes, slots, loads, loadError, loadedArtifact>>

\* sess = rt.InferenceSession(onnx_model_path, session_options) succeeds.
LoadModel ==
  /\ mainpc = "load"
  /\ \E artifact \in Artifacts :
       /\ sess' = InferenceSession(artifact, session_options)
       /\ loadedArtifact' = artifact
  /\ loads' = loads + 1
  /\ mainpc' = "routes"
  /\ UNCHANGED <<session_options, routes, slots, loadError>>

\* rt.InferenceSession raises: the artifact is missing or unreadable.
LoadModelFails ==
  /\ mainpc = "load"
  /\ loadError' = TRUE
  /\ mainpc' = AfterLoadError
  /\ UNCHANGED <<session_options, sess, routes, slots, loads, loadedArtifact>>

\* class ModelInput, @app.post("/predict"), @app.get("/"): the rest of the
\* module runs and the server starts serving.
RegisterRoutes ==
  /\ mainpc = "routes"
  /\ routes' = {"/predict", "/"}
  /\ mainpc' = "serving"
  /\ UNCHANGED <<session_options, sess, slots, loads, loadError, loadedArtifact>>

\* A mutation of predict: input_data is one module-level name, so a run reads
\* the matrix the latest assembly left there.
SharedInputData(s) ==
  LET others == {t \in Slots : slots[t].pc = "assembled"}
      t == CHOOSE u \in others : \A v \in others : u >= v
  IN  slots[t].matrix

\* input_data is local to one call of predict.
InputData(s) == slots[s].matrix

\* predict, up to the matrix: the body is parsed into ModelInput, the frame is
\* built and the columns are selected and cast; a failure goes to the except
\* clause.
PredictAssemble(s, sent, order) ==
  /\ mainpc = "serving"
  /\ "/predict" \in routes
  /\ slots[s].pc = "idle"
  /\ LET body  == EncodeBody(sent, order)
         input == ModelInput(body)
         frame == DataFrame(input)
     IN  slots' = [slots EXCEPT ![s] =
             IF frame.ok
               THEN [pc |-> "assembled", body |-> body, input |-> input,
                     matrix |-> SelectValues(frame.value, required_columns),
                     calls |-> 0, err |-> "", resp |-> NoResponse]
               ELSE [pc |-> "done", body |-> <<>>, input |-> input, matrix |-> NoArray,
                     calls |-> 0, err |-> frame.err, resp |-> HTTPException(frame.err)]]
  /\ UNCHANGED <<mainpc, session_options, sess, routes, loads, loadError, loadedArtifact>>

\* predict, from the engine call on: sess.run, [0], tolist and the return, or
\* the except clause.
PredictRun(s) ==
  /\ slots[s].pc = "assembled"
  /\ LET result == SessRun(sess, InputData(s))
     IN  /\ slots' = [slots EXCEPT ![s] =
               [pc |-> "done", body |-> <<>>, input |-> slots[s].input, matrix |-> NoArray,
                calls |-> slots[s].calls + 1, err |-> result.err,
                resp |-> IF result.ok THEN Success(ToList(result.value[1]))
                                      ELSE HTTPException(result.err)]]
         /\ sess' = SessAfterRun(sess, result)
  /\ UNCHANGED <<mainpc, session_options, routes, loads, loadError, loadedArtifact>>

\* The response has been sent; the call's locals are gone.
SendResponse(s) ==
  /\ slots[s].pc = "done"
  /\ slots' = [slots EXCEPT ![s] = IdleSlot]
  /\ UNCHANGED <<mainpc, session_options, sess, routes, loads, loadError, loadedArtifact>>

\* The module-level code.
Startup ==
  \/ ConfigureOptions
  \/ LoadModel
  \/ LoadModelFails
  \/ RegisterRoutes

\* Requests of all slots, interleaved.
Next ==
  \/ Startup
  \/ \E s \in Slots, sent \in ConcurrentInputs : PredictAssemble(s, sent, DeclaredOrder)
  \/ \E s \in Slots : PredictRun(s)
  \/ \E s \in Slots : SendResponse(s)

Spec == Init /\ [][Next]_vars

\* One request at a time, drawn from every payload and key order.
NextSequential ==
  \/ Startup
  \/ \E sent \in Inputs, order \in KeyOrders : PredictAssemble(1, sent, order)
  \/ PredictRun(1)
  \/ SendResponse(1)

SpecSequential == Init /\ [][NextSequential]_vars

(***************************************************************************)
(* What a request's fields say, and the handler run on its own.            *)
(***************************************************************************)

Aligned(input) == \A f, g \in FieldNames : Len(input[f]) = Len(input[g])

AllEmpty(input) == \A f \in FieldNames : Len(input[f]) = 0

Busy(s) == slots[s].pc # "idle"
Done(s) == slots[s].pc = "done"

\* Row i of the matrix as the fixed column order names it.
NamedRow(input, i) ==
  <<ToFloat32(input.accelerationY[i]), ToFloat32(input.accelerationZ[i]),
    ToFloat32(input.speedv[i]), ToFloat32(input.unixTimestamp[i]),
    ToFloat32(input.latitude[i]), ToFloat32(input.longitude[i])>>

\* predict run from start to end on a session nobody else uses.
PredictAlone(artifact, input) ==
  LET frame == DataFrame(input) IN
  IF ~frame.ok THEN HTTPException(frame.err)
  ELSE LET result == SessRun(InferenceSession(artifact, Configured(DefaultOptions)),
                             SelectValues(frame.value, required_columns))
       IN  IF result.ok THEN Success(ToList(result.value[1]))
                        ELSE HTTPException(result.err)

(***************************************************************************)
(* The claims.                                                             *)
(***************************************************************************)

\* C1: a request whose six sequences are not all of equal length fails with
\* a validation error, a 4xx-class outcome distinct from an inference error.
C1_MismatchIsValidationError ==
  \A s \in Slots :
    Done(s) /\ ~Aligned(slots[s].input) => slots[s].resp.status \in 400..499

\* C2: for an aligned request of N >= 1 rows whose model call succeeds, the
\* response has exactly N rows and row i is the model's output for the matrix
\* row built from element i of each of the six sequences.
C2_RowsInOrder ==
  \A s \in Slots :
    Done(s) /\ Aligned(slots[s].input) /\ Len(slots[s].input.accelerationY) >= 1
            /\ slots[s].resp.status = 200
      => /\ Len(slots[s].resp.predictions) = Len(slots[s].input.accelerationY)
         /\ \A i \in 1..Len(slots[s].input.accelerationY) :
              slots[s].resp.predictions[i] = RowScore(NamedRow(slots[s].input, i))

C2_Witness ==
  \E s \in Slots :
    /\ Done(s) /\ slots[s].resp.status = 200
    /\ Len(slots[s].input.accelerationY) >= 2
    /\ slots[s].resp.predictions[1] # slots[s].resp.predictions[2]

\* The field values a payload carries, by name.
Carried(body) == [f \in FieldNames |-> ValueOf(body, f)]

\* C3: the matrix handed to the model has its columns in the order
\* accelerationY, accelerationZ, speedv, unixTimestamp, latitude, longitude,
\* whatever the order of the keys in the payload: it is determined by the
\* values the payload carries under each name, so two payloads carrying the
\* same values give the same matrix.
C3_ColumnsByName ==
  \A s \in Slots :
    slots[s].pc = "assembled" =>
      LET carried == Carried(slots[s].body) IN
      /\ slots[s].matrix.shape = <<Len(carried.accelerationY), 6>>
      /\ Len(slots[s].matrix.data) = Len(carried.accelerationY)
      /\ \A i \in 1..Len(carried.accelerationY) :
           slots[s].matrix.data[i] = NamedRow(carried, i)

C3_Witness ==
  \E s \in Slots :
    /\ slots[s].pc = "assembled"
    /\ slots[s].body[1][1] = "longitude"
    /\ slots[s].matrix.shape[1] = MaxLen
    /\ slots[s].matrix.data[1][1] # slots[s].matrix.data[1][6]

\* C4: a request with mismatched field lengths fails before the model is
\* invoked: it never reaches the engine call.
C4_NoRunOnMismatch ==
  \A s \in Slots :
    Busy(s) /\ ~Aligned(slots[s].input)
      => slots[s].pc = "done" /\ slots[s].calls = 0 /\ slots[s].resp.status # 200

C4_Witness ==
  \E s \in Slots :
    /\ Done(s)
    /\ Len(slots[s].input.accelerationY) = MaxLen
    /\ Len(slots[s].input.latitude) = MaxLen - 1

\* C5: a failure inside predict, in the assembly or in the model call, is
\* answered with status 500 and detail "Prediction error: " followed by the
\* error's message, never with a success, and the model is invoked at most
\* once per request.
C5_FailureIs500 ==
  \A s \in Slots :
    /\ slots[s].calls <= 1
    /\ Done(s) /\ slots[s].err # ""
         => /\ slots[s].resp.status = 500
            /\ slots[s].resp.detail = "Prediction error: " \o slots[s].err
            /\ slots[s].resp.predictions = <<>>

C5_Witness ==
  \E s \in Slots :
    /\ Done(s) /\ slots[s].err # "" /\ slots[s].calls = 1
    /\ Len(slots[s].input.accelerationY) >= 1

\* C6: when the load of the artifact fails the start-up ends there: no route
\* is registered, the service never serves, and no predict call runs without
\* a loaded session.
C6_LoadFailureIsFatal ==
  /\ loadError => mainpc = "aborted" /\ routes = {} /\ \A s \in Slots : ~Busy(s)
  /\ \A s \in Slots : Busy(s) => sess.loaded

C6_Witness == loadError /\ mainpc = "aborted" /\ ~sess.loaded

\* C7: two predict calls with the same input give the same output, whatever
\* was handled in between.
C7_SameInputSameOutput ==
  \A s, t \in Slots :
    Done(s) /\ Done(t) /\ slots[s].input = slots[t].input
      => slots[s].resp = slots[t].resp

C7_Witness ==
  \E s, t \in Slots :
    /\ s # t /\ Done(s) /\ Done(t)
    /\ slots[s].input = slots[t].input
    /\ slots[s].resp.status = 200
    /\ Len(slots[s].resp.predictions) >= 1

\* C8: a request whose six sequences are all empty is answered with an
\* inference error, never with a success.
C8_EmptyIsRejected ==
  \A s \in Slots :
    Done(s) /\ AllEmpty(slots[s].input)
      => slots[s].resp.status # 200 /\ slots[s].err # ""

\* C9: no request's failure stops the service or changes another request's
\* response: the service stays serving, and every response is the one the
\* request would have got had it run alone.
C9_FailuresAreIsolated ==
  [][/\ mainpc = "serving" => mainpc' = "serving"
     /\ \A s \in Slots :
          slots'[s].pc = "done"
            => slots'[s].resp = PredictAlone(loadedArtifact', slots'[s].input)]_vars

C9_Witness ==
  \E s, t \in Slots :
    /\ Done(s) /\ slots[s].resp.status = 500
    /\ Done(t) /\ slots[t].resp.status = 200
    /\ mainpc = "serving"

\* C10: the session is created once, with inter-op threads 1, intra-op
\* threads 1 and sequential execution already set, and once it exists neither
\* it nor the session options are written again.
C10_HandleImmutable ==
  [][/\ sess'.loaded
          => /\ loads' = 1
             /\ sess'.options.inter_op_num_threads = 1
             /\ sess'.options.intra_op_num_threads = 1
             /\ sess'.options.execution_mode = "ORT_SEQUENTIAL"
     /\ sess.loaded => sess' = sess /\ session_options' = session_options]_vars

C10_Witness ==
  /\ sess.loaded /\ loads = 1
  /\ \E s, t \in Slots :
       /\ Done(s) /\ slots[s].calls = 1 /\ slots[s].resp.status = 500
       /\ slots[t].pc = "assembled"

====
